---- MODULE Spec2Model ----
(***************************************************************************)
(* AirflowSecurityManagerV2 (airflow/www/security_manager.py): has_access, *)
(* the lazily built map from FAB resource name to auth-manager check, the  *)
(* instance-key resolvers and the category-menu fallback.                  *)
(***************************************************************************)
EXTENDS Integers, Sequences, FiniteSets, TLC

\* Python's None, and a keyword argument the call does not pass at all.
None == "None"
Omitted == "<omitted>"

(***************************************************************************)
(* Bounds of the model.                                                    *)
(***************************************************************************)
NThreads == 2
MaxRowId == 2
MaxMapIndex == 1
MaxDepth == 3

Threads == 1..NThreads
RowIds == 1..MaxRowId
MapIndexes == 0..MaxMapIndex

(***************************************************************************)
(* airflow.security.permissions, as imported.                              *)
(***************************************************************************)
ACTION_CAN_ACCESS_MENU == "menu_access"
ACTION_CAN_READ == "can_read"
RESOURCE_ADMIN_MENU == "Admin"
RESOURCE_AUDIT_LOG == "Audit Logs"
RESOURCE_BROWSE_MENU == "Browse"
RESOURCE_CLUSTER_ACTIVITY == "Cluster Activity"
RESOURCE_CONFIG == "Configurations"
RESOURCE_CONNECTION == "Connections"
RESOURCE_DAG == "DAGs"
RESOURCE_DAG_CODE == "DAG Code"
RESOURCE_DAG_DEPENDENCIES == "DAG Dependencies"
RESOURCE_DAG_RUN == "DAG Runs"
RESOURCE_DATASET == "Datasets"
RESOURCE_DOCS == "Documentation"
RESOURCE_DOCS_MENU == "Docs"
RESOURCE_JOB == "Jobs"
RESOURCE_PLUGIN == "Plugins"
RESOURCE_POOL == "Pools"
RESOURCE_PROVIDER == "Providers"
RESOURCE_SLA_MISS == "SLA Misses"
RESOURCE_TASK_INSTANCE == "Task Instances"
RESOURCE_TASK_RESCHEDULE == "Task Reschedules"
RESOURCE_TRIGGER == "Triggers"
RESOURCE_VARIABLE == "Variables"
RESOURCE_XCOM == "XComs"

\* A view that only the auth manager knows ("the user list view in
\* FabAuthManager", has_access's comment).
CUSTOM_VIEW_RESOURCE == "Users"

\* The framework's action verbs: the keys of the action map.
FabActions ==
    {ACTION_CAN_ACCESS_MENU, ACTION_CAN_READ, "can_create", "can_edit", "can_delete"}

\* get_method_from_fab_action_map(): FAB action name -> backend method. The
\* menu verb defaults to the read method.
get_method_from_fab_action_map ==
    [a \in FabActions |->
        CASE a = ACTION_CAN_ACCESS_MENU -> "GET"
          [] a = ACTION_CAN_READ -> "GET"
          [] a = "can_create" -> "POST"
          [] a = "can_edit" -> "PUT"
          [] a = "can_delete" -> "DELETE"]

(***************************************************************************)
(* resource_pk: None, or a non-empty string as FAB's routes supply it, so  *)
(* that `not resource_pk` is exactly the None test. A string is the text   *)
(* of a row id ("7") or the JSON text of a list (the task instance key).   *)
(***************************************************************************)
NonePk == [kind |-> "None", id |-> 0, elems |-> <<>>]
IdPk(n) == [kind |-> "id_text", id |-> n, elems |-> <<>>]
ListPk(e) == [kind |-> "json_list_text", id |-> 0, elems |-> e]

TiKey(m) == <<"dag_1", "task_1", "run_1", m>>
ShortTiKey == <<"dag_1", "task_1", "run_1">>

Pks ==
    {NonePk} \cup {IdPk(n) : n \in RowIds}
        \cup {ListPk(TiKey(m)) : m \in MapIndexes} \cup {ListPk(ShortTiKey)}

\* json.loads(resource_pk): the text of a list parses to the list, the text
\* of a row id to an int.
JsonLoads(text) ==
    IF text.kind = "json_list_text"
    THEN [type |-> "list", items |-> text.elems, int |-> 0]
    ELSE [type |-> "int", items |-> <<>>, int |-> text.id]

(***************************************************************************)
(* The rows the entity stores can hold. A task instance row references its *)
(* DAG run (dag_id, run_id): all task instances here belong to DAG run 1.  *)
(***************************************************************************)
ConnectionRow(n) == [id |-> n, conn_id |-> "conn_" \o ToString(n)]
PoolRow(n) == [id |-> n, pool |-> "pool_" \o ToString(n)]
VariableRow(n) == [id |-> n, key |-> "var_" \o ToString(n)]
DagRunRow(n) ==
    [id |-> n, dag_id |-> "dag_" \o ToString(n), run_id |-> "run_" \o ToString(n)]
TaskInstanceRow(m) ==
    [dag_id |-> "dag_1", task_id |-> "task_1", run_id |-> "run_1", map_index |-> m]

\* flask.g.user, the user of the current request.
g_user == "admin"
Users == {None, "bob"}

Categories == {RESOURCE_DOCS_MENU, RESOURCE_ADMIN_MENU, RESOURCE_BROWSE_MENU}

\* Names a menu category may have as children: registered resources, a
\* custom view and a category.
MenuItems == {RESOURCE_VARIABLE, RESOURCE_DOCS, CUSTOM_VIEW_RESOURCE, RESOURCE_ADMIN_MENU}

\* The auth manager's policy: a deterministic function of the invocation.
Policies == {"allow_all", "deny_all", "get_only", "admin_only"}

VARIABLES
    Connection,     \* rows of the connection table
    DagRun,         \* rows of the dag_run table
    Pool,           \* rows of the slot_pool table
    TaskInstance,   \* rows of the task_instance table
    Variable,       \* rows of the variable table
    childs,         \* appbuilder.menu: category name -> names of its children
    policy,         \* the auth manager's policy
    runtimeLock,    \* whether functools.cached_property holds a lock (< 3.12)
    cache,          \* instance __dict__ entry of the cached map: 0, or a table id
    builds,         \* runs of the map builder so far
    pc,             \* each thread's position in has_access
    req,            \* each thread's arguments
    tbl,            \* the table instance each thread dispatches through
    stack,          \* each thread's running category lambdas: items not yet visited
    out             \* each thread's outcome

vars ==
    <<Connection, DagRun, Pool, TaskInstance, Variable, childs, policy, runtimeLock,
      cache, builds, pc, req, tbl, stack, out>>

world == <<Connection, DagRun, Pool, TaskInstance, Variable, childs, policy, runtimeLock>>

(***************************************************************************)
(* The auth manager (get_auth_manager()).                                  *)
(***************************************************************************)
Invocation(api, method, access_entity, access_view, details, user) ==
    [api |-> api, method |-> method, access_entity |-> access_entity,
     access_view |-> access_view, details |-> details,
     fab_action_name |-> Omitted, fab_resource_name |-> Omitted, user |-> user]

Permits(inv) ==
    CASE policy = "allow_all" -> TRUE
      [] policy = "deny_all" -> FALSE
      [] policy = "get_only" ->
            inv.method \in {"GET", Omitted} /\ inv.fab_action_name \in {ACTION_CAN_READ, Omitted}
      [] policy = "admin_only" -> inv.user = g_user

\* What one check did: the exception it raised (None: it returned `result`),
\* the auth manager calls it made and the store lookups it ran.
Returned(inv, lookups) ==
    [raised |-> None, result |-> Permits(inv), calls |-> <<inv>>, lookups |-> lookups]
Raised(exc, lookups) ==
    [raised |-> exc, result |-> FALSE, calls |-> <<>>, lookups |-> lookups]
Value(v, lookups) == [raised |-> None, value |-> v, lookups |-> lookups]
Failed(exc, lookups) == [raised |-> exc, value |-> None, lookups |-> lookups]
NoOutcome == [raised |-> None, result |-> FALSE, calls |-> <<>>, lookups |-> <<>>]

\* session.scalar(select(Model).where(Model.id == resource_pk).limit(1))
ById(table, resource_pk) ==
    {row \in table : resource_pk.kind = "id_text" /\ row.id = resource_pk.id}

(***************************************************************************)
(* The instance-key resolvers of _auth_manager_is_authorized_map. Each     *)
(* yields the set of results the query can give: the natural key, or the   *)
(* exception raised, with the store lookups it ran.                        *)
(***************************************************************************)
Lookup(store, resource_pk) == [store |-> store, pk |-> resource_pk]

get_connection_id(resource_pk) ==
    IF resource_pk = NonePk
    THEN {Value(None, <<>>)}
    ELSE LET connection == ById(Connection, resource_pk)
             ran == <<Lookup("Connection", resource_pk)>>
         IN  IF connection = {}
             THEN {Failed("AirflowException: Connection not found", ran)}
             ELSE {Value(row.conn_id, ran) : row \in connection}

get_dag_id_from_dagrun_id(resource_pk) ==
    IF resource_pk = NonePk
    THEN {Value(None, <<>>)}
    ELSE LET dagrun == ById(DagRun, resource_pk)
             ran == <<Lookup("DagRun", resource_pk)>>
         IN  IF dagrun = {}
             THEN {Failed("AirflowException: DagRun not found", ran)}
             ELSE {Value(row.dag_id, ran) : row \in dagrun}

\* select(DagRun).where(TaskInstance...).limit(1): the FROM list is dag_run
\* and task_instance with no join condition, so every dag_run row is paired
\* with every task instance the WHERE keeps; the row returned is a DagRun.
TaskInstanceQuery(composite_pk) ==
    IF \E row \in TaskInstance :
            /\ row.dag_id = composite_pk[1]
            /\ row.task_id = composite_pk[2]
            /\ row.run_id = composite_pk[3]
            /\ row.map_index >= composite_pk[4]
    THEN DagRun
    ELSE {}

get_dag_id_from_task_instance(resource_pk) ==
    IF resource_pk = NonePk
    THEN {Value(None, <<>>)}
    ELSE LET composite_pk == JsonLoads(resource_pk)
             ran == <<Lookup("TaskInstance", resource_pk)>>
         IN  IF composite_pk.type # "list"
             THEN {Failed("TypeError", <<>>)}
             ELSE IF Len(composite_pk.items) < 4
             THEN {Failed("IndexError", <<>>)}
             ELSE LET ti == TaskInstanceQuery(composite_pk.items)
                  IN  IF ti = {}
                      THEN {Failed("AirflowException: Task instance not found", ran)}
                      ELSE {Value(row.dag_id, ran) : row \in ti}

\* get_pool_name without its `if not resource_pk: return None`.
get_pool_name_unguarded(resource_pk) ==
    LET pool == ById(Pool, resource_pk)
        ran == <<Lookup("Pool", resource_pk)>>
    IN  IF pool = {}
        THEN {Failed("AirflowException: Pool not found", ran)}
        ELSE {Value(row.pool, ran) : row \in pool}

get_pool_name(resource_pk) ==
    IF resource_pk = NonePk
    THEN {Value(None, <<>>)}
    ELSE LET pool == ById(Pool, resource_pk)
             ran == <<Lookup("Pool", resource_pk)>>
         IN  IF pool = {}
             THEN {Failed("AirflowException: Pool not found", ran)}
             ELSE {Value(row.pool, ran) : row \in pool}

get_variable_key(resource_pk) ==
    IF resource_pk = NonePk
    THEN {Value(None, <<>>)}
    ELSE LET variable == ById(Variable, resource_pk)
             ran == <<Lookup("Variable", resource_pk)>>
         IN  IF variable = {}
             THEN {Failed("AirflowException: Connection not found", ran)}
             ELSE {Value(row.key, ran) : row \in variable}

(***************************************************************************)
(* The table of _auth_manager_is_authorized_map: one lambda per resource.  *)
(* Python evaluates the keyword arguments in order, so a resolver raises   *)
(* before the auth manager is called.                                      *)
(***************************************************************************)
methods == get_method_from_fab_action_map

\* auth_manager.<api>(..., details=Details(key), ...) for each resolved key.
WithDetails(resolved, inv) ==
    {IF r.raised # None
     THEN Raised(r.raised, r.lookups)
     ELSE Returned([inv EXCEPT !.details = r.value], r.lookups) : r \in resolved}

is_authorized_dag(method, access_entity, user) ==
    Invocation("is_authorized_dag", method, access_entity, Omitted, Omitted, user)
is_authorized_view(access_view, user) ==
    Invocation("is_authorized_view", Omitted, Omitted, access_view, Omitted, user)

check_AUDIT_LOG(action, resource_pk, user) ==
    {Returned(is_authorized_dag(methods[action], "AUDIT_LOG", user), <<>>)}
check_CLUSTER_ACTIVITY(action, resource_pk, user) ==
    {Returned(is_authorized_view("CLUSTER_ACTIVITY", user), <<>>)}
check_CONFIG(action, resource_pk, user) ==
    {Returned(Invocation("is_authorized_configuration", methods[action],
                         Omitted, Omitted, Omitted, user), <<>>)}
check_CONNECTION(action, resource_pk, user) ==
    WithDetails(get_connection_id(resource_pk),
                Invocation("is_authorized_connection", methods[action],
                           Omitted, Omitted, None, user))
check_DAG(action, resource_pk, user) ==
    {Returned(is_authorized_dag(methods[action], Omitted, user), <<>>)}
check_DAG_CODE(action, resource_pk, user) ==
    {Returned(is_authorized_dag(methods[action], "CODE", user), <<>>)}
check_DAG_DEPENDENCIES(action, resource_pk, user) ==
    {Returned(is_authorized_dag(methods[action], "DEPENDENCIES", user), <<>>)}
check_DAG_RUN(action, resource_pk, user) ==
    WithDetails(get_dag_id_from_dagrun_id(resource_pk),
                is_authorized_dag(methods[action], "RUN", user))
check_DATASET(action, resource_pk, user) ==
    {Returned(Invocation("is_authorized_dataset", methods[action],
                         Omitted, Omitted, Omitted, user), <<>>)}
\* The Documentation entry written like an entity entry: it resolves the key.
check_DOCS_resolving(action, resource_pk, user) ==
    WithDetails(get_connection_id(resource_pk), is_authorized_view("DOCS", user))

check_DOCS(action, resource_pk, user) ==
    {Returned(is_authorized_view("DOCS", user), <<>>)}
check_PLUGIN(action, resource_pk, user) ==
    {Returned(is_authorized_view("PLUGINS", user), <<>>)}
check_JOB(action, resource_pk, user) ==
    {Returned(is_authorized_view("JOBS", user), <<>>)}
check_POOL(action, resource_pk, user) ==
    WithDetails(get_pool_name(resource_pk),
                Invocation("is_authorized_pool", methods[action],
                           Omitted, Omitted, None, user))
check_PROVIDER(action, resource_pk, user) ==
    {Returned(is_authorized_view("PROVIDERS", user), <<>>)}
check_SLA_MISS(action, resource_pk, user) ==
    {Returned(is_authorized_dag(methods[action], "SLA_MISS", user), <<>>)}
check_TASK_INSTANCE(action, resource_pk, user) ==
    WithDetails(get_dag_id_from_task_instance(resource_pk),
                is_authorized_dag(methods[action], "TASK_INSTANCE", user))
check_TASK_RESCHEDULE(action, resource_pk, user) ==
    {Returned(is_authorized_dag(methods[action], "TASK_RESCHEDULE", user), <<>>)}
check_TRIGGER(action, resource_pk, user) ==
    {Returned(is_authorized_view("TRIGGERS", user), <<>>)}
check_VARIABLE(action, resource_pk, user) ==
    WithDetails(get_variable_key(resource_pk),
                Invocation("is_authorized_variable", methods[action],
                           Omitted, Omitted, None, user))
check_XCOM(action, resource_pk, user) ==
    {Returned(is_authorized_dag(methods[action], "XCOM", user), <<>>)}

\* The keys of the table.
RegisteredResources ==
    {RESOURCE_AUDIT_LOG, RESOURCE_CLUSTER_ACTIVITY, RESOURCE_CONFIG, RESOURCE_CONNECTION,
     RESOURCE_DAG, RESOURCE_DAG_CODE, RESOURCE_DAG_DEPENDENCIES, RESOURCE_DAG_RUN,
     RESOURCE_DATASET, RESOURCE_DOCS, RESOURCE_PLUGIN, RESOURCE_JOB, RESOURCE_POOL,
     RESOURCE_PROVIDER, RESOURCE_SLA_MISS, RESOURCE_TASK_INSTANCE,
     RESOURCE_TASK_RESCHEDULE, RESOURCE_TRIGGER, RESOURCE_VARIABLE, RESOURCE_XCOM}

\* Calling the table's lambda for `name`.
auth_manager_is_authorized_map(name, action, resource_pk, user) ==
    CASE name = RESOURCE_AUDIT_LOG -> check_AUDIT_LOG(action, resource_pk, user)
      [] name = RESOURCE_CLUSTER_ACTIVITY -> check_CLUSTER_ACTIVITY(action, resource_pk, user)
      [] name = RESOURCE_CONFIG -> check_CONFIG(action, resource_pk, user)
      [] name = RESOURCE_CONNECTION -> check_CONNECTION(action, resource_pk, user)
      [] name = RESOURCE_DAG -> check_DAG(action, resource_pk, user)
      [] name = RESOURCE_DAG_CODE -> check_DAG_CODE(action, resource_pk, user)
      [] name = RESOURCE_DAG_DEPENDENCIES -> check_DAG_DEPENDENCIES(action, resource_pk, user)
      [] name = RESOURCE_DAG_RUN -> check_DAG_RUN(action, resource_pk, user)
      [] name = RESOURCE_DATASET -> check_DATASET(action, resource_pk, user)
      [] name = RESOURCE_DOCS -> check_DOCS(action, resource_pk, user)
      [] name = RESOURCE_PLUGIN -> check_PLUGIN(action, resource_pk, user)
      [] name = RESOURCE_JOB -> check_JOB(action, resource_pk, user)
      [] name = RESOURCE_POOL -> check_POOL(action, resource_pk, user)
      [] name = RESOURCE_PROVIDER -> check_PROVIDER(action, resource_pk, user)
      [] name = RESOURCE_SLA_MISS -> check_SLA_MISS(action, resource_pk, user)
      [] name = RESOURCE_TASK_INSTANCE -> check_TASK_INSTANCE(action, resource_pk, user)
      [] name = RESOURCE_TASK_RESCHEDULE -> check_TASK_RESCHEDULE(action, resource_pk, user)
      [] name = RESOURCE_TRIGGER -> check_TRIGGER(action, resource_pk, user)
      [] name = RESOURCE_VARIABLE -> check_VARIABLE(action, resource_pk, user)
      [] name = RESOURCE_XCOM -> check_XCOM(action, resource_pk, user)

(***************************************************************************)
(* has_access, step by step. A thread is idle, at the cached map ("map",   *)
(* "build"), about to dispatch ("dispatch"), inside a category      *)
(* lambda's any(...) ("any"), or finished ("done").                         *)
(***************************************************************************)
AllResources == RegisteredResources \cup Categories \cup {CUSTOM_VIEW_RESOURCE}

Requests == [action : FabActions, resource : AllResources, pk : Pks, user : Users]
MenuRequests == {r \in Requests : r.pk = NonePk}
ThreadRequests ==
    {r \in Requests :
        /\ r.action = ACTION_CAN_READ /\ r.pk = NonePk /\ r.user = None
        /\ r.resource \in {RESOURCE_DOCS, RESOURCE_DOCS_MENU, CUSTOM_VIEW_RESOURCE}}
NoRequest == [action |-> None, resource |-> None, pk |-> NonePk, user |-> None]

\* if not user: user = g.user
current_user(user) == IF user = None THEN g_user ELSE user

\* _get_auth_manager_is_authorized_method: the table's lambda, a category
\* lambda (built from the category's children in the menu), or None.
get_auth_manager_is_authorized_method(fab_resource_name) ==
    IF fab_resource_name \in RegisteredResources
    THEN "map_lambda"
    ELSE IF fab_resource_name \in {RESOURCE_DOCS_MENU, RESOURCE_ADMIN_MENU, RESOURCE_BROWSE_MENU}
    THEN "category_lambda"
    ELSE None

\* _is_authorized_category_menu: items = the names of the category's children.
is_authorized_category_menu(category) == childs[category]

\* has_access without its menu-access default.
custom_view_action_untranslated(action_name) == action_name

\* has_access asking for read whatever the action.
custom_view_action_always_read(action_name) == ACTION_CAN_READ

\* The action name has_access hands to is_authorized_custom_view.
custom_view_action(action_name) ==
    IF action_name = ACTION_CAN_ACCESS_MENU THEN ACTION_CAN_READ ELSE action_name

is_authorized_custom_view(fab_action_name, fab_resource_name, user) ==
    [api |-> "is_authorized_custom_view", method |-> Omitted, access_entity |-> Omitted,
     access_view |-> Omitted, details |-> Omitted,
     fab_action_name |-> fab_action_name, fab_resource_name |-> fab_resource_name,
     user |-> user]

Goto(t, where) == pc' = [pc EXCEPT ![t] = where]

\* FAB calls has_access(action_name, resource_name, user, resource_pk) with
\* one of the requests R.
has_access(t, R) ==
    /\ pc[t] = "idle"
    /\ \E r \in R : req' = [req EXCEPT ![t] = r]
    /\ Goto(t, "map")
    /\ UNCHANGED <<world, cache, builds, tbl, stack, out>>

\* cached_property.__get__: the map is in the instance __dict__.
cached_hit(t) ==
    /\ pc[t] = "map"
    /\ cache # 0
    /\ tbl' = [tbl EXCEPT ![t] = cache]
    /\ Goto(t, "dispatch")
    /\ UNCHANGED <<world, cache, builds, req, stack, out>>

\* cached_property.__get__: the map is not there yet.
cached_miss(t) ==
    /\ pc[t] = "map"
    /\ cache = 0
    /\ Goto(t, "build")
    /\ UNCHANGED <<world, cache, builds, req, tbl, stack, out>>

\* cached_property.__get__ after a miss. Before Python 3.12 it takes its lock
\* and looks again, and builds only if the map is still missing; the lock is
\* held for the whole step. From 3.12 there is no lock and no second look.
\* Building: _auth_manager_is_authorized_map runs (get_auth_manager(),
\* get_method_from_fab_action_map(), a new table) and the table is stored.
build_map(t) ==
    /\ pc[t] = "build"
    /\ IF runtimeLock /\ cache # 0
       THEN /\ tbl' = [tbl EXCEPT ![t] = cache]
            /\ UNCHANGED <<cache, builds>>
       ELSE /\ builds' = builds + 1
            /\ cache' = builds + 1
            /\ tbl' = [tbl EXCEPT ![t] = builds + 1]
    /\ Goto(t, "dispatch")
    /\ UNCHANGED <<world, req, stack, out>>

Finish(t, o) ==
    /\ out' = [out EXCEPT ![t] = o]
    /\ Goto(t, "done")

\* The resource is in the table: is_authorized_method(action_name, resource_pk, user).
invoke_map_lambda(t) ==
    /\ pc[t] = "dispatch"
    /\ get_auth_manager_is_authorized_method(req[t].resource) = "map_lambda"
    /\ \E o \in auth_manager_is_authorized_map(req[t].resource, req[t].action, req[t].pk,
                                               current_user(req[t].user)) :
            Finish(t, o)
    /\ UNCHANGED <<world, cache, builds, req, tbl, stack>>

\* The resource is a category: the category lambda is called and starts any(...).
invoke_category_lambda(t) ==
    /\ pc[t] = "dispatch"
    /\ get_auth_manager_is_authorized_method(req[t].resource) = "category_lambda"
    /\ stack' = [stack EXCEPT ![t] = <<is_authorized_category_menu(req[t].resource)>>]
    /\ Goto(t, "any")
    /\ UNCHANGED <<world, cache, builds, req, tbl, out>>

\* Neither: get_auth_manager().is_authorized_custom_view(...).
invoke_custom_view(t) ==
    /\ pc[t] = "dispatch"
    /\ get_auth_manager_is_authorized_method(req[t].resource) = None
    /\ Finish(t, Returned(is_authorized_custom_view(custom_view_action(req[t].action),
                                                    req[t].resource,
                                                    current_user(req[t].user)), <<>>))
    /\ UNCHANGED <<world, cache, builds, req, tbl, stack>>

\* any(...) calling each child's method, _get_auth_manager_is_authorized_method(
\* item)(action, resource_pk, user): a table lambda is evaluated, a child
\* category starts its own any(...) in a new frame, and None is not callable.
any_next_calling(t) ==
    /\ pc[t] = "any"
    /\ LET items == Head(stack[t])
           rest == Tail(stack[t])
       IN  IF items = {}
           THEN IF rest = <<>>
                THEN /\ Finish(t, [NoOutcome EXCEPT !.result = FALSE])
                     /\ stack' = [stack EXCEPT ![t] = <<>>]
                ELSE /\ stack' = [stack EXCEPT ![t] = rest]
                     /\ UNCHANGED <<pc, out>>
           ELSE \E item \in items :
                  LET m == get_auth_manager_is_authorized_method(item)
                  IN  CASE m = None ->
                              /\ Finish(t, Raised("TypeError", <<>>))
                              /\ stack' = [stack EXCEPT ![t] = <<>>]
                        [] m = "map_lambda" ->
                              \E o \in auth_manager_is_authorized_map(
                                           item, req[t].action, req[t].pk,
                                           current_user(req[t].user)) :
                                  IF o.raised # None \/ o.result
                                  THEN /\ Finish(t, o)
                                       /\ stack' = [stack EXCEPT ![t] = <<>>]
                                  ELSE /\ stack' = [stack EXCEPT ![t] =
                                                        <<items \ {item}>> \o rest]
                                       /\ UNCHANGED <<pc, out>>
                        [] m = "category_lambda" ->
                              /\ Len(stack[t]) < MaxDepth
                              /\ stack' = [stack EXCEPT ![t] =
                                              <<is_authorized_category_menu(item),
                                                items \ {item}>> \o rest]
                              /\ UNCHANGED <<pc, out>>
    /\ UNCHANGED <<world, cache, builds, req, tbl>>

\* One step of any(_get_auth_manager_is_authorized_method(item) for item in
\* items): the next item of the set, in whatever order the set yields it. The
\* element tested is the method object itself, which is not called.
any_next(t) ==
    /\ pc[t] = "any"
    /\ LET items == Head(stack[t])
       IN  IF items = {}
           THEN /\ Finish(t, [NoOutcome EXCEPT !.result = FALSE])
                /\ stack' = [stack EXCEPT ![t] = Tail(stack[t])]
           ELSE \E item \in items :
                    IF get_auth_manager_is_authorized_method(item) # None
                    THEN /\ Finish(t, [NoOutcome EXCEPT !.result = TRUE])
                         /\ stack' = [stack EXCEPT ![t] = Tail(stack[t])]
                    ELSE /\ stack' = [stack EXCEPT ![t] = <<items \ {item}>> \o Tail(stack[t])]
                         /\ UNCHANGED <<pc, out>>
    /\ UNCHANGED <<world, cache, builds, req, tbl>>

\* has_access has returned or raised; the thread takes its next request.
return(t) ==
    /\ pc[t] = "done"
    /\ req' = [req EXCEPT ![t] = NoRequest]
    /\ out' = [out EXCEPT ![t] = NoOutcome]
    /\ tbl' = [tbl EXCEPT ![t] = 0]
    /\ Goto(t, "idle")
    /\ UNCHANGED <<world, cache, builds, stack>>

Progress(t) ==
    \/ cached_hit(t)
    \/ cached_miss(t)
    \/ build_map(t)
    \/ invoke_map_lambda(t)
    \/ invoke_category_lambda(t)
    \/ invoke_custom_view(t)
    \/ any_next(t)
    \/ return(t)

(***************************************************************************)
(* Initial states. The manager is constructed with no map built.           *)
(***************************************************************************)
InitManager ==
    /\ cache = 0
    /\ builds = 0
    /\ pc = [t \in Threads |-> "idle"]
    /\ req = [t \in Threads |-> NoRequest]
    /\ tbl = [t \in Threads |-> 0]
    /\ stack = [t \in Threads |-> <<>>]
    /\ out = [t \in Threads |-> NoOutcome]

\* The id-keyed stores hold the rows of a set of ids; task instances exist
\* only with their DAG run.
StoresHold(ids, tis) ==
    /\ Connection = {ConnectionRow(n) : n \in ids}
    /\ Pool = {PoolRow(n) : n \in ids}
    /\ Variable = {VariableRow(n) : n \in ids}
    /\ DagRun = {DagRunRow(n) : n \in ids}
    /\ TaskInstance = {TaskInstanceRow(m) : m \in tis}

\* One caller; any stores, any policy; every category lists every menu item.
Init ==
    /\ InitManager
    /\ \E ids \in SUBSET RowIds, tis \in SUBSET MapIndexes :
            /\ tis # {} => 1 \in ids
            /\ StoresHold(ids, tis)
    /\ policy \in Policies
    /\ childs = [c \in Categories |-> MenuItems]
    /\ runtimeLock = FALSE

Next ==
    \/ has_access(1, Requests)
    \/ Progress(1)

Spec == Init /\ [][Next]_vars

\* One caller; any children under the categories, any policy; full stores.
InitMenu ==
    /\ InitManager
    /\ StoresHold(RowIds, MapIndexes)
    /\ policy \in Policies
    /\ \E items \in SUBSET MenuItems : childs = [c \in Categories |-> items]
    /\ runtimeLock = FALSE

NextMenu ==
    \/ has_access(1, MenuRequests)
    \/ Progress(1)

\* A call that has begun keeps running: the interpreter schedules its thread.
SpecMenu == InitMenu /\ [][NextMenu]_vars /\ WF_vars(Progress(1))

\* Several callers on one manager, under either cached_property.
InitThreads ==
    /\ InitManager
    /\ StoresHold(RowIds, MapIndexes)
    /\ policy = "allow_all"
    /\ childs = [c \in Categories |-> MenuItems]
    /\ runtimeLock \in BOOLEAN

NextThreads ==
    \E t \in Threads :
        \/ has_access(t, ThreadRequests)
        \/ Progress(t)

SpecThreads == InitThreads /\ [][NextThreads]_vars

(***************************************************************************)
(* Properties. Finished(t): has_access has returned or raised on thread t, *)
(* with req[t] its arguments and out[t] what it did.                       *)
(***************************************************************************)
Finished(t) == pc[t] = "done"

EntityScoped ==
    {RESOURCE_CONNECTION, RESOURCE_POOL, RESOURCE_VARIABLE, RESOURCE_DAG_RUN,
     RESOURCE_TASK_INSTANCE}
ViewScoped ==
    {RESOURCE_DOCS, RESOURCE_PLUGIN, RESOURCE_JOB, RESOURCE_PROVIDER, RESOURCE_TRIGGER,
     RESOURCE_CLUSTER_ACTIVITY}
NotFoundErrors ==
    {"AirflowException: Connection not found", "AirflowException: DagRun not found",
     "AirflowException: Task instance not found", "AirflowException: Pool not found"}

\* The check of a registered child allows, for the request's action and user.
ChildCheckAllows(item, r) ==
    \E o \in auth_manager_is_authorized_map(item, r.action, r.pk, current_user(r.user)) :
        o.raised = None /\ o.result

\* has_access on an unregistered child that is no category would return true.
CustomViewAllows(item, r) ==
    Permits(is_authorized_custom_view(custom_view_action(r.action), item,
                                      current_user(r.user)))

\* C1: a category whose children are registered resources is authorized
\* exactly when the check of at least one child allows; when every child's
\* check denies, has_access returns false.
C1_CategoryAnyChildAllows ==
    \A t \in Threads :
        (/\ Finished(t)
         /\ req[t].resource \in Categories
         /\ childs[req[t].resource] \subseteq RegisteredResources)
        => /\ out[t].raised = None
           /\ out[t].result = (\E item \in childs[req[t].resource] :
                                    ChildCheckAllows(item, req[t]))

\* The key names a row of the resource's store; for a task instance, a row
\* with exactly the key's dag id, task id, run id and map index.
KeyMatchesRow(resource, resource_pk) ==
    CASE resource = RESOURCE_CONNECTION -> ById(Connection, resource_pk) # {}
      [] resource = RESOURCE_POOL -> ById(Pool, resource_pk) # {}
      [] resource = RESOURCE_VARIABLE -> ById(Variable, resource_pk) # {}
      [] resource = RESOURCE_DAG_RUN -> ById(DagRun, resource_pk) # {}
      [] resource = RESOURCE_TASK_INSTANCE ->
            \E row \in TaskInstance :
                <<row.dag_id, row.task_id, row.run_id, row.map_index>> = resource_pk.elems

\* A key of the shape the resource's resolver expects.
WellFormedKey(resource, resource_pk) ==
    /\ resource_pk # NonePk
    /\ resource = RESOURCE_TASK_INSTANCE
        => resource_pk.kind = "json_list_text" /\ Len(resource_pk.elems) = 4

\* C2: on an entity-scoped resource, a non-null key that matches no row
\* raises the not-found error and the auth manager is not called.
C2_MissingRowRaisesNotFound ==
    \A t \in Threads :
        (/\ Finished(t)
         /\ req[t].resource \in EntityScoped
         /\ WellFormedKey(req[t].resource, req[t].pk)
         /\ ~KeyMatchesRow(req[t].resource, req[t].pk))
        => /\ out[t].raised \in NotFoundErrors
           /\ out[t].calls = <<>>

\* C3 as stated: for a resource that is neither registered nor a category,
\* the custom-view check receives the action name and the resource name
\* exactly as has_access was given them.
C3_CustomViewGetsArgumentsUnmodified ==
    \A t \in Threads :
        (/\ Finished(t)
         /\ req[t].resource \notin RegisteredResources \cup Categories)
        => out[t].calls = <<is_authorized_custom_view(
                                req[t].action, req[t].resource, current_user(req[t].user))>>

\* C3, amended: the custom-view check receives the resource name as given,
\* and the action name as given except that menu-access is replaced by read;
\* has_access returns the check's answer.
C3_CustomViewGetsReadForMenuAccess ==
    \A t \in Threads :
        (/\ Finished(t)
         /\ req[t].resource \notin RegisteredResources \cup Categories)
        => LET expected ==
                   is_authorized_custom_view(
                       IF req[t].action = ACTION_CAN_ACCESS_MENU
                       THEN ACTION_CAN_READ
                       ELSE req[t].action,
                       req[t].resource, current_user(req[t].user))
           IN  /\ out[t].raised = None
               /\ out[t].calls = <<expected>>
               /\ out[t].result = Permits(expected)

\* C4: on Task Instances, a 4-element key that resolves hands the DAG check
\* details whose id is the key's workflow id, whatever else the stores hold;
\* a 3-element key raises a malformed-key error.
C4_TaskInstanceKeyResolvesToItsDag ==
    \A t \in Threads :
        (/\ Finished(t)
         /\ req[t].resource = RESOURCE_TASK_INSTANCE
         /\ req[t].pk.kind = "json_list_text")
        => /\ (Len(req[t].pk.elems) = 4 /\ out[t].raised = None)
                => /\ Len(out[t].calls) = 1
                   /\ out[t].calls[1].api = "is_authorized_dag"
                   /\ out[t].calls[1].details = req[t].pk.elems[1]
           /\ Len(req[t].pk.elems) = 3
                => out[t].raised \in {"IndexError", "TypeError"}

\* C5: on an entity-scoped resource, a null key runs no store lookup; the
\* resolver returns None and the auth manager is called once, with a details
\* record whose key is None.
C5_NullKeySkipsLookup ==
    \A t \in Threads :
        (/\ Finished(t)
         /\ req[t].resource \in EntityScoped
         /\ req[t].pk = NonePk)
        => /\ out[t].lookups = <<>>
           /\ out[t].raised = None
           /\ Len(out[t].calls) = 1
           /\ out[t].calls[1].details = None

\* C6: the map builder runs at most once, and any two calls that have
\* obtained the map hold the same table, hence the same check function for
\* the same resource.
C6_MapBuiltOnce ==
    /\ builds <= 1
    /\ \A t1, t2 \in Threads :
            (tbl[t1] # 0 /\ tbl[t2] # 0 /\ req[t1].resource = req[t2].resource)
            => tbl[t1] = tbl[t2]

\* C7: a menu-access call never hands the auth manager menu-access as action
\* or method, and does what the same call with the read action does: the
\* same lookups, the same auth manager call, the same result or exception.
C7_MenuAccessEvaluatedAsRead ==
    \A t \in Threads :
        (Finished(t) /\ req[t].action = ACTION_CAN_ACCESS_MENU)
        => /\ \A i \in 1..Len(out[t].calls) :
                /\ out[t].calls[i].method \notin {ACTION_CAN_ACCESS_MENU, "MENU"}
                /\ out[t].calls[i].fab_action_name # ACTION_CAN_ACCESS_MENU
           /\ LET resource == req[t].resource
                  user == current_user(req[t].user)
              IN  CASE resource \in RegisteredResources ->
                          out[t] \in auth_manager_is_authorized_map(
                                         resource, ACTION_CAN_READ, req[t].pk, user)
                    [] resource \in Categories -> out[t].calls = <<>>
                    [] OTHER ->
                          out[t] = Returned(is_authorized_custom_view(
                                                ACTION_CAN_READ, resource, user), <<>>)

\* The view kind of each view-scoped resource.
AccessViewOf(resource) ==
    CASE resource = RESOURCE_DOCS -> "DOCS"
      [] resource = RESOURCE_PLUGIN -> "PLUGINS"
      [] resource = RESOURCE_JOB -> "JOBS"
      [] resource = RESOURCE_PROVIDER -> "PROVIDERS"
      [] resource = RESOURCE_TRIGGER -> "TRIGGERS"
      [] resource = RESOURCE_CLUSTER_ACTIVITY -> "CLUSTER_ACTIVITY"

\* C8: on a view-scoped resource has_access runs no lookup, raises nothing,
\* makes the one is_authorized_view call fixed by the resource and the user,
\* and returns its answer: nothing of it depends on the instance key.
C8_ViewScopedIgnoresKey ==
    \A t \in Threads :
        (Finished(t) /\ req[t].resource \in ViewScoped)
        => LET expected ==
                   is_authorized_view(AccessViewOf(req[t].resource),
                                      current_user(req[t].user))
           IN  /\ out[t].lookups = <<>>
               /\ out[t].raised = None
               /\ out[t].calls = <<expected>>
               /\ out[t].result = Permits(expected)

\* C9: a category whose children are unregistered (and no categories) is
\* authorized exactly when has_access would return true for at least one
\* child, that is when the custom-view check of a child allows.
C9_UnregisteredChildUsesFallback ==
    \A t \in Threads :
        (/\ Finished(t)
         /\ req[t].resource \in Categories
         /\ childs[req[t].resource] # {}
         /\ childs[req[t].resource] \cap (Categories \cup RegisteredResources) = {})
        => /\ out[t].raised = None
           /\ out[t].result =
                (\E item \in childs[req[t].resource] : CustomViewAllows(item, req[t]))

\* A finished has_access on a resource that is not registered raised nothing
\* and returned a boolean.
C10_UnregisteredNeverRaises ==
    \A t \in Threads :
        (Finished(t) /\ req[t].resource \notin RegisteredResources)
        => out[t].raised = None /\ out[t].result \in BOOLEAN

C3_Witness ==
    /\ Finished(1)
    /\ req[1].resource = CUSTOM_VIEW_RESOURCE
    /\ req[1].action = ACTION_CAN_ACCESS_MENU
    /\ Len(out[1].calls) = 1
    /\ out[1].calls[1].fab_action_name = ACTION_CAN_READ
    /\ out[1].calls[1].fab_resource_name = CUSTOM_VIEW_RESOURCE

\* C5: Connections checked with no key while the store holds connections.
C5_Witness ==
    /\ Finished(1)
    /\ req[1].resource = RESOURCE_CONNECTION
    /\ req[1].pk = NonePk
    /\ Connection # {}
    /\ Len(out[1].calls) = 1
    /\ out[1].calls[1].api = "is_authorized_connection"

\* C7: menu-access on a registered resource whose check takes a method, and
\* the auth manager denies it to a user it would deny read.
C7_Witness ==
    /\ Finished(1)
    /\ req[1].action = ACTION_CAN_ACCESS_MENU
    /\ req[1].resource = RESOURCE_DAG
    /\ Len(out[1].calls) = 1
    /\ out[1].calls[1].method = "GET"
    /\ ~out[1].result

\* C8: Documentation checked with a key that names no row of any store.
C8_Witness ==
    /\ Finished(1)
    /\ req[1].resource = RESOURCE_DOCS
    /\ req[1].pk = IdPk(1)
    /\ Connection = {}
    /\ out[1].raised = None
    /\ out[1].result

====
